---- MODULE Spec2Model ----
(***************************************************************************)
(* Expense Report OCR (batch): the Streamlit script src/app.py.            *)
(*                                                                         *)
(* A text is a sequence of characters; a character is a one-element        *)
(* string.  Four characters outside ASCII are written by name:             *)
(*   "FW("  U+FF08 full-width left parenthesis                             *)
(*   "FW)"  U+FF09 full-width right parenthesis                            *)
(*   "FWYEN" U+FFE5 full-width yen sign                                    *)
(*   "CJK1", "CJK2"  two Han characters                                    *)
(* Each regular expression of the script is an operator that returns the   *)
(* match re.search returns: the leftmost start, and at that start the      *)
(* first alternative Python's backtracking matcher finds.                  *)
(***************************************************************************)
EXTENDS Integers, Sequences, FiniteSets, TLC

VARIABLES uploads, pc, i, rows, texts, frames, df, shown, reads, engine

vars == <<uploads, pc, i, rows, texts, frames, df, shown, reads, engine>>

(* ------------------------------ characters ----------------------------- *)

UpperChars == <<"A", "B", "C", "D", "E", "F", "G", "H", "I", "J", "K", "L", "M", "N", "O", "P", "Q", "R", "S", "T", "U", "V", "W", "X", "Y", "Z">>

LowerChars == <<"a", "b", "c", "d", "e", "f", "g", "h", "i", "j", "k", "l", "m", "n", "o", "p", "q", "r", "s", "t", "u", "v", "w", "x", "y", "z">>

UpperSet == {UpperChars[k] : k \in 1..26}

LowerSet == {LowerChars[k] : k \in 1..26}

DigitSet == {"0", "1", "2", "3", "4", "5", "6", "7", "8", "9"}

CjkSet == {"CJK1", "CJK2"}

SpaceSet == {" ", "\n", "\t"}

PunctSet == {":", ",", ".", "-", "_", "(", ")", "FW(", "FW)", "FWYEN"}

Chars == UpperSet \cup LowerSet \cup DigitSet \cup CjkSet \cup SpaceSet \cup PunctSet

LowerOf == [c \in UpperSet |-> LowerChars[CHOOSE k \in 1..26 : UpperChars[k] = c]]

\* str.lower() on one character, and the comparison re.IGNORECASE makes
Lower(c) == IF c \in UpperSet THEN LowerOf[c] ELSE c

\* the character classes of the script's patterns
InClass(c, cls) ==
    CASE cls = "alpha" -> c \in UpperSet \cup LowerSet                           \* [A-Za-z]
      [] cls = "alnum" -> c \in UpperSet \cup LowerSet \cup DigitSet             \* [A-Za-z0-9]
      [] cls = "space" -> c \in SpaceSet                                         \* \s
      [] cls = "sep"   -> c = ":" \/ c \in SpaceSet                              \* [:\s]
      [] cls = "amt"   -> c = "," \/ c \in DigitSet                              \* [0-9,]
      [] cls = "digit" -> c \in DigitSet                                         \* [0-9]
      [] cls = "word"  -> c \in UpperSet \cup LowerSet \cup DigitSet \cup CjkSet \/ c = "_"  \* \w
      [] cls = "dot"   -> c # "\n"                                               \* .

(* ------------------------------- strings ------------------------------- *)

Sub(t, a, b) == [k \in 1..(b - a + 1) |-> t[a + k - 1]]

Min(S) == CHOOSE x \in S : \A y \in S : x <= y

Max(S) == CHOOSE x \in S : \A y \in S : x >= y

\* the position after the longest run of cls characters that starts at p
RECURSIVE RunEnd(_, _, _)
RunEnd(t, p, cls) ==
    IF p >= 1 /\ p <= Len(t) /\ InClass(t[p], cls) THEN RunEnd(t, p + 1, cls) ELSE p

\* the literal lit stands at position p of t (ci: ignoring case)
LitAt(t, p, lit, ci) ==
    /\ p >= 1
    /\ p + Len(lit) - 1 <= Len(t)
    /\ \A k \in 1..Len(lit) :
          IF ci THEN Lower(t[p + k - 1]) = Lower(lit[k]) ELSE t[p + k - 1] = lit[k]

CharAt(t, p, c) == p >= 1 /\ p <= Len(t) /\ t[p] = c

\* \b between positions p-1 and p
WordBoundary(t, p) ==
    (p > 1 /\ p - 1 <= Len(t) /\ InClass(t[p - 1], "word"))
        # (p >= 1 /\ p <= Len(t) /\ InClass(t[p], "word"))

NoMatch == [ok |-> FALSE, g1 |-> <<>>]

Hit(s) == [ok |-> TRUE, g1 |-> s]

\* re.search scans the start positions from the left: of the matches at each
\* position, the one at the least position that has one
FirstHit(ms) ==
    IF \E p \in DOMAIN ms : ms[p].ok
    THEN ms[Min({p \in DOMAIN ms : ms[p].ok})]
    ELSE NoMatch

(* ----------------------------- the patterns ---------------------------- *)

ExpenseReportLit == <<"E", "x", "p", "e", "n", "s", "e", " ", "R", "e", "p", "o", "r", "t">>

NumberLit == <<" ", "N", "u", "m", "b", "e", "r">>

ShpcLit == <<"S", "H", "P", "C", "-">>

OnLit == <<"o", "n">>

ReportOwnerLit == <<"R", "e", "p", "o", "r", "t", " ", "O", "w", "n", "e", "r">>

QcNamLit == <<"Q", "C", " ", "N", "a", "m">>

ForLit == <<"f", "o", "r">>

ReimbursementLit == <<"R", "e", "i", "m", "b", "u", "r", "s", "e", "m", "e", "n", "t">>

TotalAmountLit == <<"T", "o", "t", "a", "l", " ", "A", "m", "o", "u", "n", "t">>

CnyLit == <<"C", "N", "Y">>

\* (SHPC-[A-Za-z0-9]+) after [:\s]+ from q.  The separator run is taken whole:
\* a shorter one leaves a separator where "SHPC-" must stand.
LabelledTokenAt(t, q) ==
    LET e == RunEnd(t, q, "sep")
        r == RunEnd(t, e + 5, "alnum")
    IN  IF e > q /\ LitAt(t, e, ShpcLit, TRUE) /\ r > e + 5
        THEN Hit(Sub(t, e, r - 1))
        ELSE NoMatch

\* (?:Expense Report(?: Number)?[:\s]+)(SHPC-[A-Za-z0-9]+), re.IGNORECASE, at p
MatchReportLabelled(t, p) ==
    LET a == p + Len(ExpenseReportLit)
        b == a + Len(NumberLit)
    IN  IF ~LitAt(t, p, ExpenseReportLit, TRUE) THEN NoMatch
        ELSE IF LitAt(t, a, NumberLit, TRUE) /\ LabelledTokenAt(t, b).ok
             THEN LabelledTokenAt(t, b)
             ELSE LabelledTokenAt(t, a)

\* fault injection: the fallback pattern without its word boundaries,
\* (SHPC-[A-Za-z0-9]+)
MatchReportBareUnbounded(t, p) ==
    LET r == RunEnd(t, p + 5, "alnum")
    IN  IF LitAt(t, p, ShpcLit, FALSE) /\ r > p + 5
        THEN Hit(Sub(t, p, r - 1))
        ELSE NoMatch

\* \b(SHPC-[A-Za-z0-9]+)\b, case-sensitive, at p: the greedy run gives back
\* characters until a word boundary follows it
MatchReportBare(t, p) ==
    LET r    == RunEnd(t, p + 5, "alnum")
        ends == {e \in (p + 6)..r : WordBoundary(t, e)}
    IN  IF WordBoundary(t, p) /\ LitAt(t, p, ShpcLit, FALSE) /\ ends # {}
        THEN Hit(Sub(t, p, Max(ends) - 1))
        ELSE NoMatch

\* \s*,?\s*on\b from q, re.IGNORECASE
NameTailAt(t, q) ==
    \E a \in q..RunEnd(t, q, "space") :
       \E b \in {a} \cup (IF CharAt(t, a, ",") THEN {a + 1} ELSE {}) :
          \E c \in b..RunEnd(t, b, "space") :
             LitAt(t, c, OnLit, TRUE) /\ WordBoundary(t, c + Len(OnLit))

\* Expense Report[:\s]+SHPC-[A-Za-z0-9]+,\s*(.+?)\s*,?\s*on\b, re.IGNORECASE, at p.
\* \s* is greedy (the longest run first), (.+?) is lazy (the shortest capture first).
MatchNameHeader(t, p) ==
    LET a  == p + Len(ExpenseReportLit)
        e  == RunEnd(t, a, "sep")
        r  == RunEnd(t, e + 5, "alnum")
        c0 == r + 1
        w  == RunEnd(t, c0, "space")
        \* the captures s..x that let the rest of the pattern match
        endsFrom(s) == {x \in s..Len(t) :
                          /\ \A k \in s..x : InClass(t[k], "dot")
                          /\ NameTailAt(t, x + 1)}
        starts == {s \in c0..w : endsFrom(s) # {}}
    IN  IF /\ LitAt(t, p, ExpenseReportLit, TRUE)
           /\ e > a
           /\ LitAt(t, e, ShpcLit, TRUE)
           /\ r > e + 5
           /\ CharAt(t, r, ",")
           /\ starts # {}
        THEN Hit(Sub(t, Max(starts), Min(endsFrom(Max(starts)))))
        ELSE NoMatch

\* [:\s]+(.+) from q: the separator run gives back characters until (.+) has
\* a character that is no newline to start on; (.+) runs to the end of the line
OwnerCaptureAt(t, q) ==
    LET m      == RunEnd(t, q, "sep")
        starts == {x \in (q + 1)..m : x <= Len(t) /\ InClass(t[x], "dot")}
    IN  IF starts # {}
        THEN Hit(Sub(t, Max(starts), RunEnd(t, Max(starts), "dot") - 1))
        ELSE NoMatch

\* (?:Report Owner|QC Name?)[:\s]+(.+), re.IGNORECASE, at p
MatchOwnerLabel(t, p) ==
    LET q == p + Len(QcNamLit)
    IN  IF LitAt(t, p, ReportOwnerLit, TRUE)
        THEN OwnerCaptureAt(t, p + Len(ReportOwnerLit))
        ELSE IF ~LitAt(t, p, QcNamLit, TRUE) THEN NoMatch
        ELSE IF q <= Len(t) /\ Lower(t[q]) = "e" /\ OwnerCaptureAt(t, q + 1).ok
             THEN OwnerCaptureAt(t, q + 1)
             ELSE OwnerCaptureAt(t, q)

\* ([0-9,]+\.[0-9]{2}) at c: the run of digits and commas is taken whole,
\* a shorter one leaves a digit or comma where the point must stand
AmountAt(t, c) ==
    LET r == RunEnd(t, c, "amt")
    IN  IF /\ r > c
           /\ CharAt(t, r, ".")
           /\ r + 2 <= Len(t)
           /\ InClass(t[r + 1], "digit")
           /\ InClass(t[r + 2], "digit")
        THEN Hit(Sub(t, c, r + 2))
        ELSE NoMatch

\* for\s*FWYEN?\s*([0-9,]+\.[0-9]{2}), re.IGNORECASE, at p
MatchAmountFor(t, p) ==
    LET a == RunEnd(t, p + Len(ForLit), "space")
        b == IF CharAt(t, a, "FWYEN") THEN a + 1 ELSE a
        c == RunEnd(t, b, "space")
    IN  IF LitAt(t, p, ForLit, TRUE) THEN AmountAt(t, c) ELSE NoMatch

\* [:\s]+(?:CNY|FWYEN)?\s*([0-9,]+\.[0-9]{2}) from q: with the currency mark
\* first, then without it
LabelledAmountAt(t, q) ==
    LET m == RunEnd(t, q, "sep")
        b == IF LitAt(t, m, CnyLit, TRUE) THEN m + Len(CnyLit)
             ELSE IF CharAt(t, m, "FWYEN") THEN m + 1 ELSE m
        c == RunEnd(t, b, "space")
    IN  IF m = q THEN NoMatch
        ELSE IF AmountAt(t, c).ok THEN AmountAt(t, c) ELSE AmountAt(t, m)

\* (?:Reimbursement|Total Amount)[:\s]+(?:CNY|FWYEN)?\s*([0-9,]+\.[0-9]{2}), re.IGNORECASE, at p
MatchAmountLabel(t, p) ==
    IF LitAt(t, p, ReimbursementLit, TRUE)
    THEN LabelledAmountAt(t, p + Len(ReimbursementLit))
    ELSE IF LitAt(t, p, TotalAmountLit, TRUE)
         THEN LabelledAmountAt(t, p + Len(TotalAmountLit))
         ELSE NoMatch

\* re.search(pattern, text) for each pattern: the match at the leftmost start
SearchReportLabelled(t) == FirstHit([p \in 1..Len(t) |-> MatchReportLabelled(t, p)])

SearchReportBare(t) == FirstHit([p \in 1..Len(t) |-> MatchReportBare(t, p)])

SearchNameHeader(t) == FirstHit([p \in 1..Len(t) |-> MatchNameHeader(t, p)])

SearchOwnerLabel(t) == FirstHit([p \in 1..Len(t) |-> MatchOwnerLabel(t, p)])

SearchAmountFor(t) == FirstHit([p \in 1..Len(t) |-> MatchAmountFor(t, p)])

SearchAmountLabel(t) == FirstHit([p \in 1..Len(t) |-> MatchAmountLabel(t, p)])

(* --------------------------- _clean_name_english ----------------------- *)

\* the first FW) after p when no newline stands before it, else 0
CloseAfter(t, p) ==
    LET closes == {q \in (p + 1)..Len(t) : t[q] = "FW)"}
    IN  IF closes # {} /\ \A k \in (p + 1)..(Min(closes) - 1) : InClass(t[k], "dot")
        THEN Min(closes)
        ELSE 0

\* re.sub(r"FW(.*?FW)", "", name), scanning from p
RECURSIVE StripParensFrom(_, _)
StripParensFrom(t, p) ==
    IF p > Len(t) THEN <<>>
    ELSE IF t[p] = "FW(" /\ CloseAfter(t, p) # 0
         THEN StripParensFrom(t, CloseAfter(t, p) + 1)
         ELSE <<t[p]>> \o StripParensFrom(t, p + 1)

StripParens(name) == StripParensFrom(name, 1)

\* re.findall(r"[A-Za-z]+", name), scanning from p
RECURSIVE FindWordsFrom(_, _)
FindWordsFrom(t, p) ==
    IF p > Len(t) THEN <<>>
    ELSE IF InClass(t[p], "alpha")
         THEN <<Sub(t, p, RunEnd(t, p, "alpha") - 1)>> \o FindWordsFrom(t, RunEnd(t, p, "alpha"))
         ELSE FindWordsFrom(t, p + 1)

FindWords(name) == FindWordsFrom(name, 1)

\* fault injection: words[:3]
FirstThree(words) == IF Len(words) <= 3 THEN words ELSE SubSeq(words, 1, 3)

\* words[:2]
FirstTwo(words) == IF Len(words) <= 2 THEN words ELSE SubSeq(words, 1, 2)

\* " ".join(words)
RECURSIVE JoinWords(_)
JoinWords(words) ==
    IF words = <<>> THEN <<>>
    ELSE IF Len(words) = 1 THEN words[1]
    ELSE words[1] \o <<" ">> \o JoinWords(Tail(words))

\* str.strip()
RECURSIVE Strip(_)
Strip(s) ==
    IF s = <<>> THEN s
    ELSE IF s[1] \in SpaceSet THEN Strip(Tail(s))
    ELSE IF s[Len(s)] \in SpaceSet THEN Strip(SubSeq(s, 1, Len(s) - 1))
    ELSE s

_clean_name_english(name) == Strip(JoinWords(FirstTwo(FindWords(StripParens(name)))))

(* ------------------------------ _extract_fields ------------------------ *)

\* what no string is: Python's None
NoneValue == <<"None">>

\* fault injection: m.group(1) if m else None
GroupOrNone(m) == IF m.ok THEN m.g1 ELSE NoneValue

\* m.group(1) if m else ""
GroupOrEmpty(m) == IF m.ok THEN m.g1 ELSE <<>>

\* fault injection: the fallback label searched in every call
AlwaysFallback(qc_name) == TRUE

\* "if not qc_name": the fallback label is searched when the name is still empty
NeedFallback(qc_name) == qc_name = <<>>

\* (report_no, qc_name, amount) and the locals of the call, from the matches of
\* the searches.  A search the call does not make (the branch that holds
\* it is not taken) is recorded as not tried, its match as no match.
FieldsFrom(no1, no2, name, amt, amt2) ==
    [ m_no1       |-> no1,
      bare_tried  |-> ~no1.ok,
      m_no2       |-> IF no1.ok THEN NoMatch ELSE no2,
      m_name      |-> name,
      name1       |-> IF name.ok THEN _clean_name_english(name.g1) ELSE <<>>,
      owner_tried |-> FALSE,
      m_owner     |-> NoMatch,
      m_amt       |-> amt,
      amt2_tried  |-> GroupOrEmpty(amt) = <<>>,
      m_amt2      |-> IF GroupOrEmpty(amt) = <<>> THEN amt2 ELSE NoMatch,
      report_no   |-> GroupOrEmpty(IF no1.ok THEN no1 ELSE no2),
      qc_name     |-> <<>>,
      amount      |-> IF GroupOrEmpty(amt) = <<>> THEN GroupOrEmpty(amt2) ELSE GroupOrEmpty(amt) ]

\* lines 82-86: the fallback label, searched when the name is still empty
WithOwner(fr, owner) ==
    IF NeedFallback(fr.name1)
    THEN [fr EXCEPT !.owner_tried = TRUE,
                    !.m_owner = owner,
                    !.qc_name = IF owner.ok THEN _clean_name_english(owner.g1) ELSE fr.name1]
    ELSE [fr EXCEPT !.qc_name = fr.name1]

_extract_fields(text) ==
    WithOwner(FieldsFrom(SearchReportLabelled(text), SearchReportBare(text),
                         SearchNameHeader(text),
                         SearchAmountFor(text), SearchAmountLabel(text)),
              SearchOwnerLabel(text))

(* ---------------------------- text acquisition ------------------------- *)

\* page.extract_text() of a page that has no text layer
NoText == NoneValue

\* a file's bytes, by what the two engines make of them: a PDF with its pages'
\* text layers, an image with the text Tesseract reads in it, or neither
PdfBytes(pages) == [kind |-> "pdf", pages |-> pages]

ImageBytes(text) == [kind |-> "image", pages |-> <<text>>]

JunkBytes == [kind |-> "junk", pages |-> <<>>]

PdfSuffix == <<".", "p", "d", "f">>

ImageSuffixes == { <<".", "p", "n", "g">>,
                   <<".", "j", "p", "g">>,
                   <<".", "j", "p", "e", "g">>,
                   <<".", "b", "m", "p">>,
                   <<".", "t", "i", "f">>,
                   <<".", "t", "i", "f", "f">> }

LowerStr(s) == [k \in 1..Len(s) |-> Lower(s[k])]

\* "\n".join(page.extract_text() or "" for page in pdf.pages)
RECURSIVE JoinPages(_)
JoinPages(pages) ==
    IF pages = <<>> THEN <<>>
    ELSE LET first == IF pages[1] = NoText THEN <<>> ELSE pages[1]
         IN  IF Len(pages) = 1 THEN first
             ELSE first \o <<"\n">> \o JoinPages(Tail(pages))

\* "." + f.name.split(".")[-1]
SuffixOf(name) ==
    LET dots == {k \in 1..Len(name) : name[k] = "."}
    IN  IF dots = {} THEN <<".">> \o name
        ELSE <<".">> \o Sub(name, Max(dots) + 1, Len(name))

\* _read_text_from_bytes(file_bytes, suffix): the text it returns, or that it
\* raised (pdfplumber.open / Image.open on bytes they cannot read), and the
\* engine it called
_read_text_from_bytes(file_bytes, suffix) ==
    IF LowerStr(suffix) = PdfSuffix
    THEN [ engine |-> "pdf",
           raised |-> file_bytes.kind # "pdf",
           text   |-> IF file_bytes.kind = "pdf" THEN JoinPages(file_bytes.pages) ELSE <<>> ]
    ELSE IF LowerStr(suffix) \in ImageSuffixes
    THEN [ engine |-> "ocr",
           raised |-> file_bytes.kind # "image",
           text   |-> IF file_bytes.kind = "image" THEN file_bytes.pages[1] ELSE <<>> ]
    ELSE [ engine |-> "none", raised |-> FALSE, text |-> <<>> ]

(* ------------------------------ the script ----------------------------- *)

NoTable == [made |-> FALSE, data |-> <<>>]

\* text[:2000] + ("\n...\n" if len(text) > 2000 else "")
DebugLimit == 2000

DebugSnippet(text) ==
    IF Len(text) > DebugLimit
    THEN SubSeq(text, 1, DebugLimit) \o <<"\n", ".", ".", ".", "\n">>
    ELSE text

\* "if uploads:" with files uploaded
EnterBatch ==
    /\ pc = "script"
    /\ uploads # <<>>
    /\ pc' = "loop"
    /\ i' = 1
    /\ rows' = <<>>
    /\ UNCHANGED <<uploads, texts, frames, df, shown, reads, engine>>

\* "else: st.info(...)"
NoUploads ==
    /\ pc = "script"
    /\ uploads = <<>>
    /\ pc' = "idle"
    /\ UNCHANGED <<uploads, i, rows, texts, frames, df, shown, reads, engine>>

\* one pass of "for f in uploads": an exception of text acquisition is not
\* caught, it ends the script run.  reads counts the calls of
\* _read_text_from_bytes for each file, engine lists the engines they called.
LoopBody ==
    /\ pc = "loop"
    /\ i <= Len(uploads)
    /\ LET f      == uploads[i]
           suffix == SuffixOf(f.name)
           got    == _read_text_from_bytes(f.bytes, suffix)
           fields == _extract_fields(got.text)
       IN  /\ reads' = [reads EXCEPT ![i] = @ + 1]
           /\ engine' = IF got.engine = "none" THEN engine
                        ELSE [engine EXCEPT ![i] = Append(@, got.engine)]
           /\ IF got.raised
              THEN /\ pc' = "crashed"
                   /\ UNCHANGED <<i, rows, texts, frames>>
              ELSE /\ pc' = "loop"
                   /\ i' = i + 1
                   /\ texts' = Append(texts, got.text)
                   /\ frames' = Append(frames, fields)
                   /\ rows' = Append(rows, [ report_no |-> fields.report_no,
                                             qc_name   |-> fields.qc_name,
                                             amount    |-> fields.amount ])
    /\ UNCHANGED <<uploads, df, shown>>

\* the loop is over: status.update, the DataFrame, the Excel download
LoopDone ==
    /\ pc = "loop"
    /\ i > Len(uploads)
    /\ df' = [made |-> TRUE, data |-> rows]
    /\ pc' = "debug"
    /\ i' = 1
    /\ UNCHANGED <<uploads, rows, texts, frames, shown, reads, engine>>

\* one pass of the debug expander's loop: the text is acquired again
DebugBody ==
    /\ pc = "debug"
    /\ i <= Len(uploads)
    /\ LET f      == uploads[i]
           suffix == SuffixOf(f.name)
           got    == _read_text_from_bytes(f.bytes, suffix)
       IN  /\ reads' = [reads EXCEPT ![i] = @ + 1]
           /\ engine' = IF got.engine = "none" THEN engine
                        ELSE [engine EXCEPT ![i] = Append(@, got.engine)]
           /\ IF got.raised
              THEN pc' = "crashed" /\ UNCHANGED <<i, shown>>
              ELSE /\ pc' = "debug"
                   /\ i' = i + 1
                   /\ shown' = Append(shown, DebugSnippet(got.text))
    /\ UNCHANGED <<uploads, rows, texts, frames, df>>

DebugDone ==
    /\ pc = "debug"
    /\ i > Len(uploads)
    /\ pc' = "done"
    /\ UNCHANGED <<uploads, i, rows, texts, frames, df, shown, reads, engine>>

Next == EnterBatch \/ NoUploads \/ LoopBody \/ LoopDone \/ DebugBody \/ DebugDone

(* ------------------------------- the inputs ---------------------------- *)

\* the longest batch of files with free names and contents
MaxDocs == 2

\* the longest free run of digits and commas before an amount's ending
MaxAmt == 3

\* the longest free captured name, in tokens
MaxCap == 4

\* the sequences of at most n elements of S
RECURSIVE SeqsUpTo(_, _)
SeqsUpTo(S, n) ==
    IF n = 0 THEN {<<>>}
    ELSE LET shorter == SeqsUpTo(S, n - 1)
         IN  shorter \cup {Append(s, x) : s \in shorter, x \in S}

\* the concatenation of a sequence of texts
RECURSIVE Concat(_)
Concat(parts) == IF parts = <<>> THEN <<>> ELSE parts[1] \o Concat(Tail(parts))

FileNames == { <<"a", ".", "p", "d", "f">>,
               <<"b", ".", "P", "D", "F">>,
               <<"c", ".", "p", "n", "g">>,
               <<"d", ".", "J", "p", "e", "g">>,
               <<"e", ".", "t", "x", "t">>,
               <<"n", "o", "t", "e", "s">>,
               <<"p", "d", "f">> }

BatchBytes == { PdfBytes(<< <<"E", "x", "p", "e", "n", "s", "e", " ", "R", "e", "p", "o", "r", "t", ":", " ", "S", "H", "P", "C", "-", "A", "1">>, NoText >>),
                ImageBytes(<<"f", "o", "r", " ", "1", ".", "0", "0">>),
                JunkBytes }

BatchInputs == SeqsUpTo([name : FileNames, bytes : BatchBytes], MaxDocs)

\* texts around the report number
NumberTexts ==
    { a \o b \o c \o d \o e :
        a \in { <<>>, <<"S", "H", "P", "C", "-", "B", "2", " ">>, <<"x", "S", "H", "P", "C", "-", "B", "2", " ">> },
        b \in { <<>>, <<"E", "x", "p", "e", "n", "s", "e", " ", "R", "e", "p", "o", "r", "t">>, <<"e", "x", "p", "e", "n", "s", "e", " ", "r", "e", "p", "o", "r", "t", " ", "n", "u", "m", "b", "e", "r">>, <<"E", "x", "p", "e", "n", "s", "e", " ", "R", "e", "p", "o", "r", "t", " ", "N", "o">> },
        c \in { <<>>, <<":">>, <<" ">>, <<":", "\n">> },
        d \in { <<>>, <<"S", "H", "P", "C", "-", "A", "1">>, <<"s", "h", "p", "c", "-", "a", "1">>, <<"S", "H", "P", "C", "-">>, <<"S", "H", "P", "C", "-", "A", "1", "_", "x">> },
        e \in { <<>>, <<",">>, <<" ", "S", "H", "P", "C", "-", "C", "3">> } }

NameWords == { <<"L", "i">>, <<"R", "o", "n">>, <<"J", "o", "h", "n", "s", "o", "n">> }

NameAnnotations == { <<>>, <<" ", "(", "CJK1", ")">>, <<"FW(", "A", "l", "FW)">> }

NameTokens == { <<"S", "H", "P", "C", "-", "A", "1">> }

NameRests == { <<"2", "0", "2", "4">> }

OwnerLines == { <<>>, <<"\n", "Q", "C", " ", "N", "a", "m", "e", ":", " ", "A", "l", " ", "M", "a">>, <<"\n", "R", "e", "p", "o", "r", "t", " ", "O", "w", "n", "e", "r", ":", "C", "y">> }

\* "Expense Report: <token>, <First> <Last>, on <rest>", an annotation after
\* the first or the last word
HeaderText(tok, first, ann1, last, ann2, rest) ==
    <<"E", "x", "p", "e", "n", "s", "e", " ", "R", "e", "p", "o", "r", "t", ":", " ">> \o tok \o <<",", " ">> \o first \o ann1 \o <<" ">> \o last \o ann2
        \o <<",", " ", "o", "n", " ">> \o rest

HeaderTexts ==
    { HeaderText(tok, first, ann1, last, ann2, rest) :
        tok \in NameTokens, first \in NameWords, ann1 \in NameAnnotations,
        last \in NameWords, ann2 \in NameAnnotations, rest \in NameRests }

\* headers whose name part is no two Latin words, or that the pattern misses
OddHeaderTexts ==
    { <<"E", "x", "p", "e", "n", "s", "e", " ", "R", "e", "p", "o", "r", "t", ":", " ", "S", "H", "P", "C", "-", "A", "1", ",">> \o a \o b :
        a \in { <<" ", "1", "2">>, <<" ", "CJK1", "CJK2", " ">>, <<" ", " ">>, <<"FW(", "L", "i", "FW)">>, <<" ", "L", "i", " ", "B", "o", " ", "A", "l">>, <<"\n", "L", "i">> },
        b \in { <<",", " ", "o", "n", " ", "1">>, <<" ", "O", "N", ".">>, <<"o", "n">>, <<",", "o", "n", "e">>, <<" ", ",", " ", "o", "n", "CJK1">> } }

NameTexts == { h \o o : h \in HeaderTexts \cup OddHeaderTexts, o \in OwnerLines }

AmountLeads == { <<"f", "o", "r", " ">>, <<"F", "O", "R", "FWYEN", " ">>, <<"T", "o", "t", "a", "l", " ", "A", "m", "o", "u", "n", "t", ":", " ", "C", "N", "Y", " ">>, <<"R", "e", "i", "m", "b", "u", "r", "s", "e", "m", "e", "n", "t", ":", "FWYEN">>, <<"x", " ">> }

AmountEnds == { <<>>, <<".", "1", "1">>, <<".", "1">>, <<".", "1", "1", "9">> }

AmountSeconds == { <<>>, <<" ", "T", "o", "t", "a", "l", " ", "A", "m", "o", "u", "n", "t", ":", " ", "2", ".", "2", "2">> }

\* texts around the amount: a free run of digits and commas, then an ending
AmountTexts ==
    { a \o b \o c \o d :
        a \in AmountLeads,
        b \in SeqsUpTo({"1", ","}, MaxAmt),
        c \in AmountEnds,
        d \in AmountSeconds }

CaptureTokens == { <<"A", "l">>, <<"b">>, <<" ">>, <<"FW(">>, <<"FW)">> }

LongCaptures == { <<"FW(", "A", "l", "FW(", "b", "FW)", "C", "y", "FW)", "D", "i">>,
                  <<"A", "l", "FW(", "b", "FW)", " ", "C", "y", "FW(", "D", "i">>,
                  <<" ", "A", "l", " ", " ", "b", " ", "C", "y", " ", "1">>,
                  <<"A", "1", "b", "-", "C", "y", "_", "D", "i">> }

\* texts whose label captures a free name
CaptureTexts ==
    { <<"Q", "C", " ", "N", "a", "m", "e", ":">> \o Concat(s) : s \in SeqsUpTo(CaptureTokens, MaxCap) }
        \cup { <<"R", "e", "p", "o", "r", "t", " ", "O", "w", "n", "e", "r", ":", " ">> \o s : s \in LongCaptures }

FieldTexts == NumberTexts \cup NameTexts \cup AmountTexts \cup CaptureTexts

\* one PDF whose single page carries the text
FieldInputs == { << [name |-> <<"a", ".", "p", "d", "f">>, bytes |-> PdfBytes(<<t>>)] >> : t \in FieldTexts }

(* ---------------------------- the specification ------------------------ *)

Init ==
    /\ uploads \in BatchInputs \cup FieldInputs
    /\ pc = "script"
    /\ i = 0
    /\ rows = <<>>
    /\ texts = <<>>
    /\ frames = <<>>
    /\ df = NoTable
    /\ shown = <<>>
    /\ reads = [k \in 1..Len(uploads) |-> 0]
    /\ engine = [k \in 1..Len(uploads) |-> <<>>]

Spec == Init /\ [][Next]_vars

(* ------------------------------- the claims ---------------------------- *)

EmptyRow == [report_no |-> <<>>, qc_name |-> <<>>, amount |-> <<>>]

\* what one file's acquisition does, and the record its text gives
Acquired(f) == _read_text_from_bytes(f.bytes, SuffixOf(f.name))

RowOf(f) ==
    LET fields == _extract_fields(Acquired(f).text)
    IN  [report_no |-> fields.report_no, qc_name |-> fields.qc_name, amount |-> fields.amount]

LoopOver == pc \in {"debug", "done", "crashed"}

RunOver == pc \in {"done", "crashed"}

\* C1: once the batch loop is over, the result collection holds exactly one
\* record per uploaded file, the k-th record being the one of the k-th file
\* (the empty record for a file whose acquisition failed): no row is dropped,
\* duplicated or reordered.
C1_BatchKeepsEveryRow ==
    LoopOver =>
        /\ Len(rows) = Len(uploads)
        /\ \A k \in 1..Len(uploads) : rows[k] = RowOf(uploads[k])

\* C2: when acquisition raises for one file of a batch, the run still ends
\* with the aggregated table produced and with the record of every other file
\* in it.
C2_FailureConfined ==
    (RunOver /\ \E k \in 1..Len(uploads) : Acquired(uploads[k]).raised) =>
        /\ df.made
        /\ \A k \in 1..Len(uploads) :
              ~Acquired(uploads[k]).raised =>
                  \E j \in 1..Len(df.data) : df.data[j] = RowOf(uploads[k])

\* the file name's suffix: from its last "." on, none when it has no "."
TrueSuffix(name) ==
    LET dots == {k \in 1..Len(name) : name[k] = "."}
    IN  IF dots = {} THEN <<>> ELSE Sub(name, Max(dots), Len(name))

RouteBySuffix(name) ==
    IF LowerStr(TrueSuffix(name)) = PdfSuffix THEN "pdf"
    ELSE IF LowerStr(TrueSuffix(name)) \in ImageSuffixes THEN "ocr"
    ELSE "none"

\* C3: a file is dispatched by its name's suffix alone, compared ignoring case:
\* .pdf to the PDF reader, an image suffix to OCR, and any other name (one
\* without a suffix too) to no engine, with the empty text, no error and an
\* all-empty record.
C3_DispatchBySuffix ==
    \A k \in 1..Len(uploads) :
        reads[k] > 0 =>
            IF RouteBySuffix(uploads[k].name) = "none"
            THEN /\ engine[k] = <<>>
                 /\ k <= Len(rows)
                 /\ texts[k] = <<>>
                 /\ rows[k] = EmptyRow
            ELSE /\ engine[k] # <<>>
                 /\ \A j \in 1..Len(engine[k]) : engine[k][j] = RouteBySuffix(uploads[k].name)

\* C10: each file is consumed by text acquisition once in a run, one engine
\* call per file, and the debug view shows the text the extraction used.
C10_AcquiredOnce ==
    \A k \in 1..Len(uploads) :
        /\ reads[k] <= 1
        /\ Len(engine[k]) <= 1
        /\ (pc = "done" => reads[k] = 1)
        /\ (k <= Len(shown) => shown[k] = DebugSnippet(texts[k]))

\* the documents the loop has processed: rows[k] is the record of texts[k],
\* frames[k] the locals of that call of _extract_fields
Processed == 1..Len(rows)

\* C4: for a text of the header form
\* "Expense Report: <token>, <First> <Last>, on <rest>", First and Last Latin
\* words, an annotation in parentheses allowed after either, the reviewer
\* name is "<First> <Last>".
C4_HeaderName ==
    \A k \in Processed :
        \A tok \in NameTokens, first \in NameWords, ann1 \in NameAnnotations,
           last \in NameWords, ann2 \in NameAnnotations, rest \in NameRests :
            texts[k] = HeaderText(tok, first, ann1, last, ann2, rest)
                => rows[k].qc_name = first \o <<" ">> \o last

IsSubstring(s, t) == \E a \in 1..(Len(t) - Len(s) + 1) : Sub(t, a, a + Len(s) - 1) = s

\* digits(,digits)*.dd
IsMoney(s) ==
    LET n == Len(s)
    IN  /\ n >= 4
        /\ s[n - 2] = "."
        /\ s[n - 1] \in DigitSet
        /\ s[n] \in DigitSet
        /\ s[1] \in DigitSet
        /\ s[n - 3] \in DigitSet
        /\ \A j \in 1..(n - 3) : s[j] \in DigitSet \/ s[j] = ","
        /\ \A j \in 1..(n - 4) : ~(s[j] = "," /\ s[j + 1] = ",")

\* C5: the amount is the empty string or a substring of the text of the form
\* digits(,digits)*.dd, copied as it stands.
C5_AmountFormat ==
    \A k \in Processed :
        \/ rows[k].amount = <<>>
        \/ IsSubstring(rows[k].amount, texts[k]) /\ IsMoney(rows[k].amount)

IsLatin(c) == c \in UpperSet \cup LowerSet

\* position k of t lies in a full-width parenthetical: between a FW( and the
\* first FW) after it, the two marks included
InParen(t, k) ==
    \E a \in 1..k, b \in k..Len(t) :
        /\ a < b
        /\ t[a] = "FW("
        /\ t[b] = "FW)"
        /\ \A j \in a..(b - 1) : t[j] # "FW)"

\* t without its full-width parentheticals
Kept(t) ==
    LET K == {k \in 1..Len(t) : ~InParen(t, k)}
    IN  [j \in 1..Cardinality(K) |-> t[CHOOSE k \in K : Cardinality({x \in K : x <= k}) = j]]

\* where the alphabetic runs of s start, and the run that starts at a
RunStarts(s) == {a \in 1..Len(s) : IsLatin(s[a]) /\ (a = 1 \/ ~IsLatin(s[a - 1]))}

RunFrom(s, a) == Sub(s, a, Min({b \in a..Len(s) : b = Len(s) \/ ~IsLatin(s[b + 1])}))

\* the first two alphabetic runs of t without its parentheticals, one space
\* between them
ExpectedName(t) ==
    LET s  == Kept(t)
        st == RunStarts(s)
    IN  IF st = {} THEN <<>>
        ELSE IF Cardinality(st) = 1 THEN RunFrom(s, Min(st))
        ELSE RunFrom(s, Min(st)) \o <<" ">> \o RunFrom(s, Min(st \ {Min(st)}))

\* nothing, or one or two Latin words with one space between them
NameShape(out) ==
    /\ out \in Seq(UpperSet \cup LowerSet \cup {" "})
    /\ out # <<>> => out[1] # " " /\ out[Len(out)] # " "
    /\ Cardinality({j \in 1..Len(out) : out[j] = " "}) <= 1

CleanedAsClaimed(cap, out) ==
    /\ NameShape(out)
    /\ out = ExpectedName(cap)
    /\ \A j \in 1..Len(out) :
          IsLatin(out[j]) => \E k \in 1..Len(cap) : cap[k] = out[j] /\ ~InParen(cap, k)
    /\ _clean_name_english(out) = out

\* C6 as claimed: the fallback label is searched only when the primary header
\* pattern finds no match, and whenever the primary pattern matches the name is
\* its cleaned capture.
C6_FallbackOnlyOnMiss ==
    \A k \in Processed :
        /\ frames[k].owner_tried => ~frames[k].m_name.ok
        /\ frames[k].m_name.ok => rows[k].qc_name = ExpectedName(frames[k].m_name.g1)

\* the primary rule gives no name: no match, or a capture without a Latin
\* letter outside full-width parentheses
PrimaryGivesNoName(fr) == ~fr.m_name.ok \/ RunStarts(Kept(fr.m_name.g1)) = {}

\* C6 amended: the fallback label is searched exactly when the primary rule
\* gives no name (no match, or a capture that cleans to the empty string);
\* when the primary capture cleans to a name, the reviewer name is that
\* cleaned capture and the fallback label is not searched.
C6_FallbackOnEmptyName ==
    \A k \in Processed :
        /\ frames[k].owner_tried <=> PrimaryGivesNoName(frames[k])
        /\ ~PrimaryGivesNoName(frames[k]) =>
              /\ rows[k].qc_name = ExpectedName(frames[k].m_name.g1)
              /\ ~frames[k].m_owner.ok

\* C6 witnesses: the primary pattern matched a capture that cleans to nothing
\* and the label gave the name
C6_Witness ==
    \E k \in Processed :
        /\ frames[k].m_name.ok
        /\ frames[k].name1 = <<>>
        /\ frames[k].m_owner.ok
        /\ rows[k].qc_name # <<>>

\* "SHPC-" (ci: in any letter case) and an alphanumeric character stand at s
IsTokenStart(t, s, ci) ==
    /\ LitAt(t, s, ShpcLit, ci)
    /\ s + 5 <= Len(t)
    /\ InClass(t[s + 5], "alnum")

\* the token that starts at s: "SHPC-" and all the alphanumerics after it
TokenAt(t, s) ==
    Sub(t, s, Max({e \in (s + 5)..Len(t) : \A j \in (s + 5)..e : InClass(t[j], "alnum")}))

\* where the label "Expense Report", with " Number" or without, ends when it
\* starts at p
LabelEnds(t, p) ==
    IF ~LitAt(t, p, ExpenseReportLit, TRUE) THEN {}
    ELSE {p + 14} \cup (IF LitAt(t, p + 14, NumberLit, TRUE) THEN {p + 21} ELSE {})

\* the token starts that one or more separators join to a label starting at p
LabelledTokens(t, p) ==
    {s \in (p + 15)..Len(t) :
        /\ LabelEnds(t, p) # {}
        /\ IsTokenStart(t, s, TRUE)
        /\ \E q \in LabelEnds(t, p) : q < s /\ \A j \in q..(s - 1) : InClass(t[j], "sep")}

LabelledStarts(t) == {p \in 1..Len(t) : LabelEnds(t, p) # {} /\ LabelledTokens(t, p) # {}}

IsWordChar(c) == c \in UpperSet \cup LowerSet \cup DigitSet \cup CjkSet \cup {"_"}

\* the starts of the standalone tokens: "SHPC-" in capitals, no word character
\* before the token and none after it
BareStarts(t) ==
    {p \in 1..Len(t) :
        /\ IsTokenStart(t, p, FALSE)
        /\ p = 1 \/ ~IsWordChar(t[p - 1])
        /\ LET e == p + Len(TokenAt(t, p)) IN e > Len(t) \/ ~IsWordChar(t[e])}

\* the report number by the order of the two rules
ExpectedReportNo(t) ==
    IF LabelledStarts(t) # {}
    THEN TokenAt(t, CHOOSE s \in LabelledTokens(t, Min(LabelledStarts(t))) : TRUE)
    ELSE IF BareStarts(t) # {} THEN TokenAt(t, Min(BareStarts(t)))
    ELSE <<>>

\* C7 as claimed: the report number is the token of the first match of the
\* labelled pattern if it matches (a standalone token earlier in the text or
\* not), else the first standalone token, else the empty string; when not
\* empty it is "SHPC-" and at least one alphanumeric character.
C7_ReportNumberOrder ==
    \A k \in Processed :
        /\ rows[k].report_no = ExpectedReportNo(texts[k])
        /\ rows[k].report_no # <<>> =>
              /\ Len(rows[k].report_no) >= 6
              /\ SubSeq(rows[k].report_no, 1, 5) = ShpcLit
              /\ \A j \in 6..Len(rows[k].report_no) : InClass(rows[k].report_no[j], "alnum")

\* C7 amended: the same order of the two rules; a result that is not empty is
\* the letters S, H, P, C in either case, "-", and at least one alphanumeric
\* character, the letters being capitals when the result comes from the
\* standalone rule.
C7_ReportNumberAnyCase ==
    \A k \in Processed :
        /\ rows[k].report_no = ExpectedReportNo(texts[k])
        /\ rows[k].report_no # <<>> =>
              /\ Len(rows[k].report_no) >= 6
              /\ LowerStr(SubSeq(rows[k].report_no, 1, 5)) = LowerStr(ShpcLit)
              /\ \A j \in 6..Len(rows[k].report_no) : InClass(rows[k].report_no[j], "alnum")
              /\ LabelledStarts(texts[k]) = {} => SubSeq(rows[k].report_no, 1, 5) = ShpcLit

\* C7 witnesses: the labelled pattern matched after a standalone token, and
\* its token is the result
C7_Witness ==
    \E k \in Processed :
        /\ LabelledStarts(texts[k]) # {}
        /\ BareStarts(texts[k]) # {}
        /\ Min(BareStarts(texts[k])) < Min(LabelledStarts(texts[k]))
        /\ rows[k].report_no # TokenAt(texts[k], Min(BareStarts(texts[k])))
        /\ rows[k].report_no # <<>>

IsString(s) == s \in Seq(Chars)

\* C8: _extract_fields returns three strings, none of them None; a field
\* none of whose rules matched is the empty string whatever the other two
\* are; the empty text gives three empty strings.
C8_FieldsAreStrings ==
    /\ Len(frames) = Len(texts)
    /\ Len(rows) = Len(texts)
    /\ \A k \in Processed :
          /\ IsString(rows[k].report_no)
          /\ IsString(rows[k].qc_name)
          /\ IsString(rows[k].amount)
          /\ ~frames[k].m_no1.ok /\ ~frames[k].m_no2.ok => rows[k].report_no = <<>>
          /\ ~frames[k].m_name.ok /\ ~frames[k].m_owner.ok => rows[k].qc_name = <<>>
          /\ ~frames[k].m_amt.ok /\ ~frames[k].m_amt2.ok => rows[k].amount = <<>>
          /\ texts[k] = <<>> => rows[k] = EmptyRow

\* C8 witnesses: one file gave the empty text and the empty record, another a
\* report number with the other two fields empty
C8_Witness ==
    \E k1 \in Processed, k2 \in Processed :
        /\ texts[k1] = <<>>
        /\ rows[k1] = EmptyRow
        /\ rows[k2].report_no # <<>>
        /\ rows[k2].qc_name = <<>>
        /\ rows[k2].amount = <<>>

====
